---- MODULE Spec2Model ----
(***************************************************************************)
(* Botwaf: the request inspection pipeline (botwaf_middleware), the Redis  *)
(* bitmap IP filter and the component registries, as state machines.       *)
(*                                                                         *)
(* Unsigned 64-bit values are kept as four 16-bit words, most significant  *)
(* first, and 32-bit values as two 16-bit words, so that every arithmetic  *)
(* step keeps the width the Rust code has.                                 *)
(***************************************************************************)
EXTENDS Integers, Sequences, FiniteSets, TLC

\* ------------------------------------------------------------------------
\* Bounds of the model.
\* ------------------------------------------------------------------------
MaxRequests == 1

Reqs == 1..MaxRequests

None == [some |-> FALSE]
Some(v) == [some |-> TRUE, val |-> v]

\* ------------------------------------------------------------------------
\* Fixed-width arithmetic on 16-bit words.
\* ------------------------------------------------------------------------
W16 == 65536

RECURSIVE BitOr(_, _)
BitOr(a, b) ==
    IF a = 0 THEN b
    ELSE IF b = 0 THEN a
    ELSE (IF a % 2 = 1 \/ b % 2 = 1 THEN 1 ELSE 0) + 2 * BitOr(a \div 2, b \div 2)

\* (x << 8) on a u64: the top eight bits fall off.
Shl8U64(x) ==
    << ((x[1] % 256) * 256) + (x[2] \div 256),
       ((x[2] % 256) * 256) + (x[3] \div 256),
       ((x[3] % 256) * 256) + (x[4] \div 256),
       ((x[4] % 256) * 256) >>

\* x | (g as u64) for a 16-bit g.
OrU64Low16(x, g) == << x[1], x[2], x[3], BitOr(x[4], g) >>

\* x % (u32::MAX as u64): x = hi * 2^32 + lo is congruent to hi + lo.
ModU32Max(x) ==
    LET s0    == x[4] + x[2]
        s1    == x[3] + x[1] + (s0 \div W16)
        carry == s1 \div W16
        r     == << s1 % W16, s0 % W16 >>
        inc   == IF r[2] = W16 - 1
                    THEN << (r[1] + 1) % W16, 0 >>
                    ELSE << r[1], r[2] + 1 >>
        red(v) == IF v = << W16 - 1, W16 - 1 >> THEN << 0, 0 >> ELSE v
    IN  IF carry = 1 THEN red(inc) ELSE red(r)

\* ------------------------------------------------------------------------
\* Client addresses.  client_ip is the text taken from the request; the
\* text either parses as an IPv4 address (four octets), as an IPv6 address
\* (sixteen octets), or does not parse.
\* ------------------------------------------------------------------------
V4(a, b, c, d) == [kind |-> "v4", octets |-> << a, b, c, d >>]
V6(g1, g2, g3, g4, g5, g6, g7, g8) ==
    [kind |-> "v6",
     octets |-> << g1 \div 256, g1 % 256, g2 \div 256, g2 % 256,
                   g3 \div 256, g3 % 256, g4 \div 256, g4 % 256,
                   g5 \div 256, g5 % 256, g6 \div 256, g6 % 256,
                   g7 \div 256, g7 % 256, g8 \div 256, g8 % 256 >>]
BadText == [kind |-> "text", octets |-> << >>]

Ip10_0_0_1   == V4(10, 0, 0, 1)
IpV4Max      == V4(255, 255, 255, 255)
Ip6Db8_1     == V6(8193, 3512, 0, 0, 0, 0, 0, 1)       \* 2001:db8::1
Ip6Db8_2     == V6(8193, 3512, 0, 0, 0, 0, 0, 2)       \* 2001:db8::2
Ip6Fold      == V6(0, 0, 0, 0, 10, 0, 0, 1)            \* ::a:0:0:1

AddrSamples == { Ip10_0_0_1, IpV4Max, Ip6Db8_1, Ip6Db8_2, Ip6Fold }
PipelineAddrs == { Ip10_0_0_1 }
ClientIpSamples == { Some(a) : a \in AddrSamples } \cup { Some(BadText), None }
PipelineClientIps == { Some(a) : a \in PipelineAddrs } \cup { Some(BadText) }

Ok(v) == [ok |-> TRUE, val |-> v]
Err(e) == [ok |-> FALSE, err |-> e]

\* RedisIPFilter::get_client_ip
get_client_ip(client_ip) ==
    IF client_ip.some THEN Ok(client_ip.val) ELSE Err("Client IP not found")

\* The loop of the IPv6 branch: result = (result << 8) | group(i).
RECURSIVE FoldGroups(_, _, _)
FoldGroups(octets, i, result) ==
    IF i > 7 THEN result
    ELSE FoldGroups(octets, i + 1,
             OrU64Low16(Shl8U64(result),
                        BitOr(octets[i * 2 + 1] * 256, octets[i * 2 + 2])))

\* RedisIPFilter::get_ip_bitmap_offset
get_ip_bitmap_offset(client_ip) ==
    LET text == get_client_ip(client_ip) IN
    IF ~text.ok THEN text
    ELSE IF text.val.kind = "v4"
        THEN LET o == text.val.octets
             IN  Ok(<< o[1] * 256 + o[2], o[3] * 256 + o[4] >>)
    ELSE IF text.val.kind = "v6"
        THEN Ok(ModU32Max(FoldGroups(text.val.octets, 0, << 0, 0, 0, 0 >>)))
    ELSE Err("invalid IP address syntax")

\* ------------------------------------------------------------------------
\* State.
\* ------------------------------------------------------------------------
VARIABLES
    config,          \* the immutable AppConfig
    started,         \* BotwafForwarderManager::init has run
    ipfilterImpls,   \* IPFilterManager.implementations (names)
    forwarderImpls,  \* BotwafForwarderManager.implementations (names)
    bitmap,          \* the Redis bitmap: the set of offsets whose bit is 1
    lastWrite,       \* per address: the last completed block_ip/unblock_ip
    lastWriteAt,     \* per offset: the last completed SETBIT
    lastQuery,       \* the last is_blocked call made outside the pipeline
    pc,              \* per request: position in botwaf_middleware
    incoming,        \* per request: the HttpIncomingRequest
    resp,            \* per request: what the client gets
    trail,           \* per request: which collaborators were consulted
    services,        \* config.services.updaters / .verifiers
    implementations, \* per registry: name -> handler
    rwlock,          \* per registry: who holds SINGLE_INSTANCE's lock
    initTask,        \* the start-up task: its position in an init()
    initRuns,        \* per init(): how many times it was started
    handlers,        \* every handler constructed so far, by id
    lastRegister,    \* the last register() call
    tasks,           \* every run of a scheduled job's closure so far
    serve,           \* axum::serve of the web server: phase, time waited
    webReq,          \* per web request: position in auth_middleware / handler
    current_user,    \* SECURITY_CONTEXT.current_user
    upload           \* the embedding() call: position, info.status, documents

initVars == << services, implementations, rwlock, initTask, initRuns, handlers,
               lastRegister >>

ctlVars == << tasks, serve, webReq, current_user, upload >>

vars == << config, started, ipfilterImpls, forwarderImpls, bitmap, lastWrite,
           lastWriteAt, lastQuery, pc, incoming, resp, trail, initVars, ctlVars >>

ipVars == << bitmap, lastWrite, lastWriteAt, lastQuery >>
reqVars == << pc, incoming, resp, trail >>
regVars == << started, ipfilterImpls, forwarderImpls, initVars >>

\* ------------------------------------------------------------------------
\* The cache: GETBIT / SETBIT on the bitmap key.  backend = FALSE is a call
\* that fails (cache unreachable).
\* ------------------------------------------------------------------------
get_bit(bm, offset, backend) ==
    IF backend THEN Ok(offset \in bm) ELSE Err("redis error")

\* Returns << result, new bitmap >>; the result is the prior bit.
set_bit(bm, offset, value, backend) ==
    IF backend
        THEN << Ok(offset \in bm),
                IF value THEN bm \cup { offset } ELSE bm \ { offset } >>
        ELSE << Err("redis error"), bm >>

\* RedisIPFilter::is_blocked
is_blocked(bm, client_ip, backend) ==
    LET offset == get_ip_bitmap_offset(client_ip) IN
    IF ~offset.ok THEN offset ELSE get_bit(bm, offset.val, backend)

\* RedisIPFilter::block_ip
block_ip(bm, client_ip, backend) ==
    LET offset == get_ip_bitmap_offset(client_ip) IN
    IF ~offset.ok THEN << offset, bm >> ELSE set_bit(bm, offset.val, TRUE, backend)

\* Variant: unblock_ip sets the bit instead of clearing it.
unblock_ip_SetsBit(bm, client_ip, backend) ==
    LET offset == get_ip_bitmap_offset(client_ip) IN
    IF ~offset.ok THEN << offset, bm >> ELSE set_bit(bm, offset.val, TRUE, backend)

\* RedisIPFilter::unblock_ip
unblock_ip(bm, client_ip, backend) ==
    LET offset == get_ip_bitmap_offset(client_ip) IN
    IF ~offset.ok THEN << offset, bm >> ELSE set_bit(bm, offset.val, FALSE, backend)

OffsetOf(addr) == get_ip_bitmap_offset(Some(addr)).val
AllOffsets == { OffsetOf(a) : a \in AddrSamples }

\* Book-keeping of a completed write of `what` by client_ip.
Written(client_ip, res, what) ==
    IF res.ok
        THEN /\ lastWrite' = [lastWrite EXCEPT ![client_ip.val] = what]
             /\ lastWriteAt' = [lastWriteAt EXCEPT ![OffsetOf(client_ip.val)] = what]
        ELSE UNCHANGED << lastWrite, lastWriteAt >>

BlockIp(client_ip) ==
    /\ \E backend \in BOOLEAN :
          LET r == block_ip(bitmap, client_ip, backend) IN
          /\ bitmap' = r[2]
          /\ Written(client_ip, r[1], "block")
    /\ UNCHANGED << config, ctlVars, regVars, reqVars, lastQuery >>

UnblockIp(client_ip) ==
    /\ \E backend \in BOOLEAN :
          LET r == unblock_ip(bitmap, client_ip, backend) IN
          /\ bitmap' = r[2]
          /\ Written(client_ip, r[1], "unblock")
    /\ UNCHANGED << config, ctlVars, regVars, reqVars, lastQuery >>

NoQuery == [asked |-> FALSE]

IsBlocked(client_ip) ==
    /\ \E backend \in BOOLEAN :
          lastQuery' = [asked |-> TRUE, ip |-> client_ip,
                        offset |-> get_ip_bitmap_offset(client_ip),
                        result |-> is_blocked(bitmap, client_ip, backend),
                        after |-> IF client_ip.some /\ client_ip.val \in AddrSamples
                                     THEN lastWrite[client_ip.val] ELSE "none",
                        afterAt |-> IF get_ip_bitmap_offset(client_ip).ok
                                       THEN lastWriteAt[get_ip_bitmap_offset(client_ip).val]
                                       ELSE "none"]
    /\ UNCHANGED << config, ctlVars, regVars, reqVars, bitmap, lastWrite, lastWriteAt >>

\* A header value that names addresses is the sequence of its comma-separated
\* tokens.  IpAddr::from_str of the whole value: one token parses as what it
\* is, several tokens together are no address.
WholeValue(tokens) == IF Len(tokens) = 1 THEN tokens[1] ELSE BadText

\* HttpIncomingRequest::new, client_ip: the X-Forwarded-For value, or else
\* the X-Real-IP value, or else the address of the peer.
client_ip_of(xff, xreal, peer) ==
    IF xff.some THEN Some(WholeValue(xff.val))
    ELSE IF xreal.some THEN Some(WholeValue(xreal.val))
    ELSE peer

XForwardedForSamples ==
    { None, Some(<< Ip10_0_0_1 >>), Some(<< Ip10_0_0_1, IpV4Max >>),
      Some(<< IpV4Max, Ip10_0_0_1 >>) }
XRealIpSamples == { None, Some(<< Ip6Db8_1 >>) }
PeerSamples == { None, Some(IpV4Max) }

\* is_blocked for a request with these headers from this peer.
IsBlockedRequest(xff, xreal, peer) ==
    /\ \E backend \in BOOLEAN :
          LET client_ip == client_ip_of(xff, xreal, peer) IN
          lastQuery' = [asked |-> TRUE, ip |-> client_ip,
                        offset |-> get_ip_bitmap_offset(client_ip),
                        result |-> is_blocked(bitmap, client_ip, backend),
                        after |-> "none", afterAt |-> "none",
                        xff |-> xff, xreal |-> xreal, peer |-> peer,
                        bitmap |-> bitmap, backend |-> backend]
    /\ UNCHANGED << config, ctlVars, regVars, reqVars, bitmap, lastWrite, lastWriteAt >>

\* ------------------------------------------------------------------------
\* Paths and the anonymous-path matcher.  A path is a sequence of text
\* pieces whose concatenation is the path string.
\* ------------------------------------------------------------------------
IsPrefix(p, s) == Len(p) <= Len(s) /\ SubSeq(s, 1, Len(p)) = p

HEALTHZ_URI == << "/", "healthz" >>
STATIC_RESOURCES_PREFIX_URI == << "/", "static" >>
EXCLUDED_PREFIX_PATHS ==
    { << "/", "auth", "/", "password", "/", "pubkey" >>,
      << "/", "auth", "/", "password", "/", "verify" >>,
      << "/", "auth", "/", "connect", "/", "oidc" >>,
      << "/", "auth", "/", "connect", "/", "github" >>,
      << "/", "auth", "/", "callback", "/", "oidc" >>,
      << "/", "auth", "/", "callback", "/", "github" >>,
      << "/", "auth", "/", "wallet", "/", "ethers", "/", "verify" >>,
      STATIC_RESOURCES_PREFIX_URI }

\* One glob against one path: literal pieces, and a trailing "**" that
\* matches whatever is left.
RECURSIVE GlobMatch(_, _)
GlobMatch(glob, path) ==
    IF glob = << >> THEN path = << >>
    ELSE IF Head(glob) = "**" THEN TRUE
    ELSE /\ path # << >>
         /\ Head(glob) = Head(path)
         /\ GlobMatch(Tail(glob), Tail(path))

\* AppConfig::new: the glob set of the anonymous-path matcher.
auth_anonymous_glob_matcher(anonymous_paths) ==
    IF anonymous_paths.some
        THEN anonymous_paths.val
        ELSE { HEALTHZ_URI, HEALTHZ_URI \o << "/", "**" >>,
               << "/", "public", "/", "**" >>, << "/", "static", "/", "**" >> }

\* auths::clean_context_path
clean_context_path(ctx_path, path) ==
    IF ~ctx_path.some THEN path
    ELSE IF ctx_path.val = << "/" >> THEN path
    ELSE IF IsPrefix(ctx_path.val, path)
        THEN SubSeq(path, Len(ctx_path.val) + 1, Len(path))
        ELSE path

\* auths::is_anonymous_request
is_anonymous_request(cfg, uri_path) ==
    LET path == clean_context_path(cfg.context_path, uri_path) IN
    \/ \E p \in EXCLUDED_PREFIX_PATHS : IsPrefix(p, path)
    \/ \E g \in auth_anonymous_glob_matcher(cfg.anonymous_paths) : GlobMatch(g, path)

PathHealthz == << "/", "healthz" >>
PathStatic  == << "/", "static", "/", "a.js" >>
PathAdmin   == << "/", "admin.php" >>
PathSamples == { PathHealthz, PathStatic, PathAdmin }

\* ------------------------------------------------------------------------
\* Configuration.  AppConfig::validate accepts every value, so every u16
\* can be the configured blocked-status-code.
\* ------------------------------------------------------------------------
DefaultMaxBodyBytes == 65535

ConfigSamples ==
    { [blocked_status_code |-> c,
       allow_addition_modsec_info |-> a,
       upstream_destination_header_name |-> h,
       max_body_bytes |-> DefaultMaxBodyBytes,
       context_path |-> None,
       anonymous_paths |-> None] :
      c \in { None, Some(200), Some(403) },
      a \in BOOLEAN,
      h \in { "X-Upstream-Destination", "x-upstream-destination" } }

\* AppConfig::validate
validate(cfg) == Ok(cfg)

\* StatusCode::from_u16
StatusCode_from_u16(code) ==
    IF code >= 100 /\ code < 1000 THEN Ok(code) ELSE Err("invalid status code")

\* ------------------------------------------------------------------------
\* The rule id in the intervention log: \[id "\s*(\d+)\s*"\]
\* A log is a sequence of characters.
\* ------------------------------------------------------------------------
IsWs(c) == c \in { " ", "\t" }
IsDigit(c) == c \in { "0", "1", "2", "3", "4", "5", "6", "7", "8", "9" }

RECURSIVE SkipWs(_, _)
SkipWs(s, i) == IF i <= Len(s) /\ IsWs(s[i]) THEN SkipWs(s, i + 1) ELSE i

RECURSIVE SkipDigits(_, _)
SkipDigits(s, i) == IF i <= Len(s) /\ IsDigit(s[i]) THEN SkipDigits(s, i + 1) ELSE i

\* The match of the pattern that starts at position i, if any.
MatchAt(s, i) ==
    IF /\ i + 4 <= Len(s)
       /\ s[i] = "[" /\ s[i + 1] = "i" /\ s[i + 2] = "d" /\ s[i + 3] = " "
       /\ s[i + 4] = "\""
    THEN LET a == SkipWs(s, i + 5)
             b == SkipDigits(s, a)
             c == SkipWs(s, b)
         IN  IF b > a /\ c + 1 <= Len(s) /\ s[c] = "\"" /\ s[c + 1] = "]"
                 THEN Some(SubSeq(s, a, b - 1))
                 ELSE None
    ELSE None

\* Regex::captures(log), group 1 of the leftmost match.
RECURSIVE CapturesFrom(_, _)
CapturesFrom(s, i) ==
    IF i > Len(s) THEN None
    ELSE IF MatchAt(s, i).some THEN MatchAt(s, i)
    ELSE CapturesFrom(s, i + 1)

Masked  == << "M", "a", "s", "k", "e", "d" >>
Unknown == << "U", "n", "k", "n", "o", "w", "n" >>

\* Variant: the rule id is extracted whatever allow_addition_modsec_info is.
rule_id_of_NoMask(cfg, log) ==
    IF log.some /\ CapturesFrom(log.val, 1).some
        THEN CapturesFrom(log.val, 1).val
        ELSE Unknown

\* The rule_id of botwaf_middleware.
rule_id_of(cfg, log) ==
    IF cfg.allow_addition_modsec_info
        THEN IF log.some /\ CapturesFrom(log.val, 1).some
                 THEN CapturesFrom(log.val, 1).val
                 ELSE Unknown
        ELSE Masked

LogPlain   == << "[", "i", "d", " ", "\"", "9", "4", "2", "\"", "]" >>
LogSpaced  == << "x", " ", "[", "i", "d", " ", "\"", " ", "7", " ", "\"", "]", "x" >>
LogNoId    == << "d", "e", "n", "y" >>
LogTabbed  == << "[", "i", "d", "\t", "\"", "7", "\"", "]" >>
LogSamples == { None, Some(LogPlain), Some(LogSpaced), Some(LogNoId), Some(LogTabbed) }

\* ------------------------------------------------------------------------
\* Requests.
\* ------------------------------------------------------------------------
\* http::HeaderName::as_str: header names are lower case in the map.
Lower(name) ==
    CASE name \in { "X-Upstream-Destination", "X-UPSTREAM-DESTINATION" }
              -> "x-upstream-destination"
      [] name \in { "Accept", "ACCEPT" } -> "accept"
      [] name \in { "Host", "HOST" } -> "host"
      [] name \in { "Connection", "CONNECTION" } -> "connection"
      [] name \in { "Post", "POST" } -> "post"
      [] name \in { "X-Tag", "X-TAG" } -> "x-tag"
      [] name \in { "X-Bin", "X-BIN" } -> "x-bin"
      [] OTHER -> name

\* str::to_uppercase
Upper(name) ==
    CASE Lower(name) = "x-upstream-destination" -> "X-UPSTREAM-DESTINATION"
      [] Lower(name) = "accept" -> "ACCEPT"
      [] Lower(name) = "host" -> "HOST"
      [] Lower(name) = "connection" -> "CONNECTION"
      [] Lower(name) = "post" -> "POST"
      [] Lower(name) = "x-tag" -> "X-TAG"
      [] Lower(name) = "x-bin" -> "X-BIN"
      [] OTHER -> name

\* A piece of a header value that is not visible ASCII.
Opaque == "\\x80"

\* HeaderValue::to_str
to_str(value) ==
    IF \E i \in 1..Len(value) : value[i] = Opaque
        THEN Err("not visible ascii") ELSE Ok(value)

\* The headers as sent: a sequence of << name, value >>.
WireWithUpstream == << << "X-Upstream-Destination", << "http://u", "/" >> >>,
                       << "Accept", << "*" >> >> >>
WireNoUpstream   == << << "Accept", << "*" >> >> >>
WireHeaderSamples == { WireWithUpstream, WireNoUpstream }

Upstream == << "X-Upstream-Destination", << "http://u", "/" >> >>
WireHostConnection ==
    << Upstream, << "Host", << "example.com" >> >>,
       << "Connection", << "keep-alive" >> >>, << "Accept", << "*" >> >> >>
WireMultiValue ==
    << Upstream, << "X-Tag", << "a" >> >>, << "X-Tag", << "b" >> >>,
       << "X-Tag", << "c" >> >> >>
WireUpperCase ==
    << << "X-UPSTREAM-DESTINATION", << "http://u" >> >>, << "ACCEPT", << "*" >> >> >>
WireOpaque == << Upstream, << "X-Bin", << Opaque >> >> >>
WirePost == << Upstream, << "Post", << "x" >> >> >>
ForwardWireSamples ==
    { WireWithUpstream, WireNoUpstream, WireHostConnection, WireMultiValue,
      WireUpperCase, WireOpaque, WirePost }

\* HttpIncomingRequest::new, the header map: name -> value, collected in
\* order, a later entry replacing an earlier one of the same name.
RECURSIVE CollectHeaders(_, _)
CollectHeaders(wire, map) ==
    IF wire = << >> THEN map
    ELSE LET k == Lower(Head(wire)[1])
             v == Head(wire)[2]
         IN  CollectHeaders(Tail(wire),
                 [n \in DOMAIN map \cup { k } |->
                     IF n = k THEN (IF to_str(v).ok THEN Some(v) ELSE None)
                     ELSE map[n]])

EmptyMap == [n \in {} |-> None]

BodyLenSamples == { DefaultMaxBodyBytes, DefaultMaxBodyBytes + 1 }

\* to_bytes(body, limit)
to_bytes(body_len, limit) ==
    IF body_len > limit THEN Err("length limit exceeded") ELSE Ok(body_len)

NoRequest == [present |-> FALSE]

\* `wire` keeps the header lines the map was collected from, for the record.
HttpIncomingRequest_new(path, wire, body_len, client_ip) ==
    [present |-> TRUE, path |-> path, headers |-> CollectHeaders(wire, EmptyMap),
     wire |-> wire, body |-> body_len, client_ip |-> client_ip]

\* What the client gets.
Pending == [kind |-> "pending"]
\* A panic in the handler task: the connection is dropped, no HTTP response.
Aborted(msg) == [kind |-> "aborted", panic |-> msg]
\* The response of the inner service (next.run).
Inner == [kind |-> "inner"]
Denied(by, code, header, body) ==
    [kind |-> "denied", by |-> by, status |-> code, header |-> header, body |-> body]
Relayed(status, headers) ==
    [kind |-> "relayed", status |-> status, headers |-> headers]
GatewayError ==
    [kind |-> "error", status |-> 500, body |-> "Gateway Forwarded Error"]

NoTrail == [path |-> << >>, wire |-> << >>, body |-> 0, calls |-> << >>,
            filter |-> None, engine |-> None, upstream |-> None, sent |-> None,
            reply |-> None]

\* ------------------------------------------------------------------------
\* The rule engine (external library): what one transaction does.
\* ------------------------------------------------------------------------
EngineSteps == { "build", "process_uri", "add_request_header",
                 "process_request_headers", "append_request_body" }

Interventions ==
    { None, Some([status |-> 302, log |-> None]), Some([status |-> 401, log |-> None]) }
    \cup { Some([status |-> 403, log |-> l]) : l \in LogSamples }

EngineOutcomes ==
    { [failed |-> Some(e), intervention |-> None] : e \in EngineSteps }
    \cup { [failed |-> None, intervention |-> i] : i \in Interventions }

\* ------------------------------------------------------------------------
\* Start-up: the registries.
\* ------------------------------------------------------------------------
RedisIPFilter_NAME == "REDIS"
HttpForwardHandler_NAME == "http_forward"

\* BotwafForwarderManager::register
Forwarder_register(impls, name) ==
    IF name \in impls THEN Ok(impls) ELSE Ok(impls \cup { name })

\* IPFilterManager::register
IPFilter_register(impls, name) ==
    IF name \in impls THEN Err("already exists") ELSE Ok(impls \cup { name })

\* BotwafForwarderManager::init, which runs IPFilterManager::init first.
ManagerInit ==
    /\ ~started
    /\ LET f == IPFilter_register(ipfilterImpls, RedisIPFilter_NAME)
           g == Forwarder_register(forwarderImpls, HttpForwardHandler_NAME)
       IN  /\ f.ok /\ g.ok
           /\ ipfilterImpls' = f.val
           /\ forwarderImpls' = g.val
    /\ started' = TRUE
    /\ UNCHANGED << config, ctlVars, ipVars, reqVars, initVars >>

\* get_implementation of either registry.
get_implementation(impls, name) ==
    IF name \in impls THEN Ok(name) ELSE Err("Could not obtain registered")

\* ------------------------------------------------------------------------
\* The registries with their handlers.  A handler is known by its id, its
\* index in `handlers`; a registry map takes names to handler ids.
\* ------------------------------------------------------------------------
SimpleLLMUpdater_KIND == "SIMPLE_LLM"
SimpleExecuteBasedVerifier_KIND == "SIMPLE_EXECUTE"
LangchainLLMHandler_NAME == "LANGCHAIN"

Registries == { "forwarder", "ipfilter", "updater", "verifier", "llm" }
\* The init() functions start-up code calls (BotwafForwarderManager::init
\* runs IPFilterManager::init first).
EntryPoints == { "forwarder", "updater", "verifier", "llm" }

MaxInitRuns == 2

\* A cron expression is the sequence of its whitespace-separated fields.
\* ServicesProperties::default gives every updater and verifier this one.
PropertiesDefaultCron == << "0/30", "*", "*", "*", "*", "*", "*" >>
\* "0/30 * * * * *", the literal in both init() functions.
ScheduleFallback == << "0/30", "*", "*", "*", "*", "*" >>
CronEverySecond == << "*/1", "*", "*", "*", "*", "*" >>
CronWords == << "every", "minute" >>
CronBadField == << "61x", "*", "*", "*", "*", "*" >>

\* One field of a schedule, over the fields of the samples.
CronFieldParses(f) == f \in { "*", "0", "0/30", "*/1" }

\* Job::new_async(schedule, run): the schedule is parsed (seconds first, six
\* or seven fields); the job carries the parsed schedule.
Job_new_async(cron) ==
    IF Len(cron) \in { 6, 7 } /\ \A i \in 1..Len(cron) : CronFieldParses(cron[i])
        THEN Ok(cron)
        ELSE Err("ParseSchedule")

\* The pre-check of init() with the configured cron kept whatever it is.
SimpleLLMUpdater_init_cron_Keep(cron) == cron

\* SimpleLLMUpdater::init, the pre-check: the configured cron if a job can
\* be built from it, the literal otherwise.
SimpleLLMUpdater_init_cron(cron) ==
    IF Job_new_async(cron).ok THEN cron ELSE ScheduleFallback

\* SimpleExecuteBasedVerifier::init, the same pre-check.
SimpleExecuteBasedVerifier_init_cron(cron) ==
    IF Job_new_async(cron).ok THEN cron ELSE ScheduleFallback

\* UpdaterProperties / VerifierProperties: name, kind, enabled, cron.
Entry(name, kind, enabled) ==
    [name |-> name, kind |-> kind, enabled |-> enabled, cron |-> PropertiesDefaultCron]

WithCron(entry, cron) == [entry EXCEPT !.cron = cron]

UpdaterListSamples ==
    { << >>,
      << Entry("u1", SimpleLLMUpdater_KIND, TRUE) >>,
      << Entry("u1", SimpleLLMUpdater_KIND, TRUE),
         Entry("u2", SimpleLLMUpdater_KIND, TRUE) >>,
      << Entry("u1", SimpleLLMUpdater_KIND, FALSE), Entry("u2", "OTHER", TRUE) >> }

VerifierListSamples ==
    { << >>,
      << Entry("v1", SimpleExecuteBasedVerifier_KIND, TRUE) >>,
      << Entry("v1", SimpleExecuteBasedVerifier_KIND, TRUE),
         Entry("v2", SimpleExecuteBasedVerifier_KIND, TRUE) >>,
      << Entry("v1", SimpleExecuteBasedVerifier_KIND, FALSE), Entry("v2", "OTHER", TRUE) >>,
      << Entry("v1", SimpleExecuteBasedVerifier_KIND, TRUE),
         Entry("v1", SimpleExecuteBasedVerifier_KIND, TRUE) >> }

ServicesSamples ==
    { [updaters |-> u, verifiers |-> v] :
        u \in UpdaterListSamples, v \in VerifierListSamples }

\* ServicesProperties::default: no updaters, no verifiers.
DefaultServices == [updaters |-> << >>, verifiers |-> << >>]

\* HashMap::insert
Insert(map, name, handler) ==
    [n \in DOMAIN map \cup { name } |-> IF n = name THEN handler ELSE map[n]]

\* BotwafForwarderManager::register: << result, map afterwards >>.
BotwafForwarderManager_register(map, name, handler) ==
    IF name \in DOMAIN map
        THEN << Ok(handler), map >>
        ELSE << Ok(handler), Insert(map, name, handler) >>

\* IPFilterManager::register
IPFilterManager_register(map, name, handler) ==
    IF name \in DOMAIN map
        THEN << Err("already exists"), map >>
        ELSE << Ok(handler), Insert(map, name, handler) >>

\* BotwafUpdaterManager::register
BotwafUpdaterManager_register(map, name, handler) ==
    IF name \in DOMAIN map
        THEN << Ok(handler), map >>
        ELSE << Ok(handler), Insert(map, name, handler) >>

\* LLMManager::register
LLMManager_register(map, name, handler) ==
    IF name \in DOMAIN map
        THEN << Ok(handler), map >>
        ELSE << Ok(handler), Insert(map, name, handler) >>

\* BotwafVerifierManager::register: Ok(()) is Ok(0), no handler is returned.
BotwafVerifierManager_register(map, name, handler) ==
    IF name \in DOMAIN map
        THEN << Err("already exists"), map >>
        ELSE << Ok(0), Insert(map, name, handler) >>

\* BotwafVerifierManager::get_implementation
BotwafVerifierManager_get_implementation(map, name) ==
    IF name \in DOMAIN map THEN Ok(map[name]) ELSE Err("does't exists")

NoRegister == [called |-> FALSE]

\* Book-keeping of one register() call.
Registered(reg, name, offered, r) ==
    /\ lastRegister' = [called |-> TRUE, reg |-> reg, name |-> name,
                        offered |-> offered,
                        before |-> implementations[reg], after |-> r[2],
                        result |-> r[1]]
    /\ implementations' = [implementations EXCEPT ![reg] = r[2]]

\* A handler is constructed: it gets the next id.
Constructed(reg, entry) ==
    handlers' = Append(handlers, [reg |-> reg, entry |-> entry, inits |-> 0,
                                  job |-> None])

\* handler.init() runs on handler h.
Inited(h) == handlers' = [handlers EXCEPT ![h].inits = @ + 1]

\* handler.init() of an updater or verifier runs on handler h to its end:
\* scheduler.add(job) and scheduler.start() have completed.
Scheduled(h, job) ==
    handlers' = [handlers EXCEPT ![h].inits = @ + 1, ![h].job = Some(job)]

At(position, idx, handler) == [pc |-> position, idx |-> idx, handler |-> handler]
Idle == At("idle", 0, 0)
\* panic!: the start-up task stops, nothing runs after it.
Panicked == At("panicked", 0, 0)

TotalRuns == initRuns["forwarder"] + initRuns["updater"] + initRuns["verifier"]
             + initRuns["llm"]

FirstPosition(entry) ==
    CASE entry = "forwarder" -> "ipfilter_register"
      [] entry = "updater"   -> "updater_next"
      [] entry = "verifier"  -> "verifier_next"
      [] entry = "llm"       -> "llm_lock"

\* Start-up code calls one of the init() functions.
StartInit(entry) ==
    /\ initTask.pc = "idle"
    /\ TotalRuns < MaxInitRuns
    /\ initRuns' = [initRuns EXCEPT ![entry] = @ + 1]
    /\ initTask' = At(FirstPosition(entry), 1, 0)
    /\ UNCHANGED << config, ctlVars, started, ipfilterImpls, forwarderImpls, ipVars, reqVars,
                    services, implementations, rwlock, handlers, lastRegister >>

pipeVars == << config, ctlVars, started, ipfilterImpls, forwarderImpls, ipVars, reqVars,
               services, initRuns >>

\* The positions at which the start-up task is about to run an `.await` of a
\* construction or of an init hook.
AwaitPositions ==
    { "ipfilter_hook", "forwarder_hook", "llm_new", "llm_hook",
      "updater_new", "updater_hook", "verifier_new", "verifier_hook" }

Lock(reg, mode) == rwlock' = [rwlock EXCEPT ![reg] = mode]

\* IPFilterManager::init up to `registered.init()`: the handler is built, the
\* write lock taken, register called; the guard lives to the end of the match.
IPFilterManager_init_register ==
    /\ initTask.pc = "ipfilter_register"
    /\ LET h == Len(handlers) + 1
           r == IPFilterManager_register(implementations["ipfilter"],
                                         RedisIPFilter_NAME, h)
       IN  /\ Constructed("ipfilter", 0)
           /\ Registered("ipfilter", RedisIPFilter_NAME, h, r)
           /\ IF r[1].ok
                  THEN Lock("ipfilter", "write") /\ initTask' = At("ipfilter_hook", 1, r[1].val)
                  ELSE Lock("ipfilter", "poisoned") /\ initTask' = Panicked
    /\ UNCHANGED pipeVars

\* IPFilterManager::init: registered.init().await, then the match ends.
IPFilterManager_init_hook ==
    /\ initTask.pc = "ipfilter_hook"
    /\ Inited(initTask.handler)
    /\ Lock("ipfilter", "free")
    /\ initTask' = At("forwarder_register", 1, 0)
    /\ UNCHANGED << pipeVars, implementations, lastRegister >>

\* BotwafForwarderManager::init after IPFilterManager::init().await.
BotwafForwarderManager_init_register ==
    /\ initTask.pc = "forwarder_register"
    /\ LET h == Len(handlers) + 1
           r == BotwafForwarderManager_register(implementations["forwarder"],
                                                HttpForwardHandler_NAME, h)
       IN  /\ Constructed("forwarder", 0)
           /\ Registered("forwarder", HttpForwardHandler_NAME, h, r)
           /\ IF r[1].ok
                  THEN Lock("forwarder", "write") /\ initTask' = At("forwarder_hook", 1, r[1].val)
                  ELSE Lock("forwarder", "poisoned") /\ initTask' = Panicked
    /\ UNCHANGED pipeVars

BotwafForwarderManager_init_hook ==
    /\ initTask.pc = "forwarder_hook"
    /\ Inited(initTask.handler)
    /\ Lock("forwarder", "free")
    /\ initTask' = Idle
    /\ UNCHANGED << pipeVars, implementations, lastRegister >>

\* LLMManager::init: Self::get().write().unwrap() is evaluated, then the
\* argument LangchainLLMHandler::new(config).await.
LLMManager_init_lock ==
    /\ initTask.pc = "llm_lock"
    /\ Lock("llm", "write")
    /\ initTask' = At("llm_new", 1, 0)
    /\ UNCHANGED << pipeVars, implementations, handlers, lastRegister >>

\* new() has completed: register.
LLMManager_init_register ==
    /\ initTask.pc = "llm_new"
    /\ LET h == Len(handlers) + 1
           r == LLMManager_register(implementations["llm"], LangchainLLMHandler_NAME, h)
       IN  /\ Constructed("llm", 0)
           /\ Registered("llm", LangchainLLMHandler_NAME, h, r)
           /\ IF r[1].ok
                  THEN initTask' = At("llm_hook", 1, r[1].val) /\ UNCHANGED rwlock
                  ELSE Lock("llm", "poisoned") /\ initTask' = Panicked
    /\ UNCHANGED pipeVars

LLMManager_init_hook ==
    /\ initTask.pc = "llm_hook"
    /\ Inited(initTask.handler)
    /\ Lock("llm", "free")
    /\ initTask' = Idle
    /\ UNCHANGED << pipeVars, implementations, lastRegister >>

\* BotwafUpdaterManager::init, the head of the loop over services.updaters:
\* a disabled entry or one of another kind is passed over; otherwise the
\* write lock is taken and SimpleLLMUpdater::new(config).await begins.
BotwafUpdaterManager_init_next ==
    /\ initTask.pc = "updater_next"
    /\ LET i == initTask.idx IN
       IF i > Len(services.updaters)
           THEN initTask' = Idle /\ UNCHANGED rwlock
       ELSE IF ~services.updaters[i].enabled
               \/ services.updaters[i].kind # SimpleLLMUpdater_KIND
           THEN initTask' = At("updater_next", i + 1, 0) /\ UNCHANGED rwlock
       ELSE Lock("updater", "write") /\ initTask' = At("updater_new", i, 0)
    /\ UNCHANGED << pipeVars, implementations, handlers, lastRegister >>

\* new() has completed: register(config.kind, handler).
BotwafUpdaterManager_init_register ==
    /\ initTask.pc = "updater_new"
    /\ LET h == Len(handlers) + 1
           i == initTask.idx
           r == BotwafUpdaterManager_register(implementations["updater"],
                                              services.updaters[i].kind, h)
       IN  /\ Constructed("updater", i)
           /\ Registered("updater", services.updaters[i].kind, h, r)
           /\ IF r[1].ok
                  THEN initTask' = At("updater_hook", i, r[1].val) /\ UNCHANGED rwlock
                  ELSE Lock("updater", "poisoned") /\ initTask' = Panicked
    /\ UNCHANGED pipeVars

\* registered.init().await, which is SimpleLLMUpdater::init: the pre-check,
\* Job::new_async(cron, ..).unwrap(), scheduler.add, scheduler.start; then
\* the match ends and the guard is dropped.
BotwafUpdaterManager_init_hook ==
    /\ initTask.pc = "updater_hook"
    /\ LET h == initTask.handler
           configured == services.updaters[handlers[h].entry].cron
           job == Job_new_async(SimpleLLMUpdater_init_cron(configured))
       IN  IF job.ok
               THEN /\ Scheduled(h, job.val)
                    /\ Lock("updater", "free")
                    /\ initTask' = At("updater_next", initTask.idx + 1, 0)
               ELSE /\ UNCHANGED handlers
                    /\ Lock("updater", "poisoned")
                    /\ initTask' = Panicked
    /\ UNCHANGED << pipeVars, implementations, lastRegister >>

\* BotwafVerifierManager::init, the head of the first loop: a disabled entry
\* or one of another kind is passed over; otherwise
\* SimpleExecuteBasedVerifier::new(config).await begins (no lock held).
BotwafVerifierManager_init_next ==
    /\ initTask.pc = "verifier_next"
    /\ LET i == initTask.idx IN
       IF i > Len(services.verifiers)
           THEN initTask' = At("verifier_lookup", 1, 0)
       ELSE IF ~services.verifiers[i].enabled
               \/ services.verifiers[i].kind # SimpleExecuteBasedVerifier_KIND
           THEN initTask' = At("verifier_next", i + 1, 0)
       ELSE initTask' = At("verifier_new", i, 0)
    /\ UNCHANGED << pipeVars, implementations, rwlock, handlers, lastRegister >>

\* new() has completed: lock().await, register(config.name, handler); an Err
\* is logged; the guard is dropped at the end of the `if let`.
BotwafVerifierManager_init_register ==
    /\ initTask.pc = "verifier_new"
    /\ LET h == Len(handlers) + 1
           i == initTask.idx
           r == BotwafVerifierManager_register(implementations["verifier"],
                                               services.verifiers[i].name, h)
       IN  /\ Constructed("verifier", i)
           /\ Registered("verifier", services.verifiers[i].name, h, r)
    /\ initTask' = At("verifier_next", initTask.idx + 1, 0)
    /\ UNCHANGED << pipeVars, rwlock >>

\* The head of the second loop: get_implementation(config.name) under the
\* mutex, whose guard lives to the end of the match.
BotwafVerifierManager_init_lookup ==
    /\ initTask.pc = "verifier_lookup"
    /\ LET i == initTask.idx IN
       IF i > Len(services.verifiers)
           THEN initTask' = Idle /\ UNCHANGED rwlock
       ELSE IF ~services.verifiers[i].enabled
           THEN initTask' = At("verifier_lookup", i + 1, 0) /\ UNCHANGED rwlock
       ELSE LET g == BotwafVerifierManager_get_implementation(
                         implementations["verifier"], services.verifiers[i].name)
            IN  IF g.ok
                    THEN Lock("verifier", "lookup") /\ initTask' = At("verifier_hook", i, g.val)
                    ELSE initTask' = At("verifier_lookup", i + 1, 0) /\ UNCHANGED rwlock
    /\ UNCHANGED << pipeVars, implementations, handlers, lastRegister >>

\* handler.init().await, which is SimpleExecuteBasedVerifier::init.
BotwafVerifierManager_init_hook ==
    /\ initTask.pc = "verifier_hook"
    /\ LET h == initTask.handler
           configured == services.verifiers[handlers[h].entry].cron
           job == Job_new_async(SimpleExecuteBasedVerifier_init_cron(configured))
       IN  IF job.ok
               THEN /\ Scheduled(h, job.val)
                    /\ Lock("verifier", "free")
                    /\ initTask' = At("verifier_lookup", initTask.idx + 1, 0)
               ELSE /\ UNCHANGED handlers
                    /\ Lock("verifier", "free")
                    /\ initTask' = Panicked
    /\ UNCHANGED << pipeVars, implementations, lastRegister >>

\* ------------------------------------------------------------------------
\* botwaf_middleware, one action per stretch between suspension points.
\* ------------------------------------------------------------------------
Called(r, who) == [trail[r] EXCEPT !.calls = Append(@, who)]

Finish(r, response, tr) ==
    /\ resp' = [resp EXCEPT ![r] = response]
    /\ trail' = [trail EXCEPT ![r] = tr]
    /\ pc' = [pc EXCEPT ![r] = "done"]
    /\ incoming' = [incoming EXCEPT ![r] = NoRequest]

\* Variant: the anonymous-path test placed after the IP filter check.
PassToNext_AfterFilter(r, fresh) ==
    Finish(r, Inner, [fresh EXCEPT !.calls = << "ipfilter", "next" >>])

\* `return next.run(req).await` of the anonymous branch.
PassToNext(r, fresh) == Finish(r, Inner, [fresh EXCEPT !.calls = << "next" >>])

\* Variant: the transaction is built before the IP filter is asked.
FirstStage_Engine == "engine"

\* The stage that follows the wrapping of the request.
FirstStage == "ipfilter"

\* The request arrives: the anonymous-path test, then the request is wrapped
\* and the IP filter implementation looked up.
Receive(r, path, wire, body_len, client_ip) ==
    /\ started
    /\ pc[r] \in { "idle", "done" }
    /\ LET fresh == [NoTrail EXCEPT !.path = path]
           \* what HttpIncomingRequest::new has read of the body
           read  == [fresh EXCEPT !.body = body_len]
       IN
       IF is_anonymous_request(config, path)
           THEN PassToNext(r, fresh)
       ELSE IF ~to_bytes(body_len, config.max_body_bytes).ok
           THEN Finish(r, Aborted("Failed to collect request body"),
                       [fresh EXCEPT !.body = body_len])
       ELSE IF ~get_implementation(ipfilterImpls, RedisIPFilter_NAME).ok
           THEN Finish(r, Aborted("Failed to get IP filter implementation"), read)
       ELSE /\ incoming' = [incoming EXCEPT ![r] =
                               HttpIncomingRequest_new(path, wire, body_len, client_ip)]
            /\ pc' = [pc EXCEPT ![r] = FirstStage]
            /\ resp' = [resp EXCEPT ![r] = Pending]
            /\ trail' = [trail EXCEPT ![r] = read]
    /\ UNCHANGED << config, ctlVars, regVars, ipVars >>

\* Variant: unwrap_or(true), a filter that fails closed.
unwrap_or_true(res) == IF res.ok THEN res.val ELSE TRUE

\* Result::unwrap_or(false) on the is_blocked result.
unwrap_or_false(res) == IF res.ok THEN res.val ELSE FALSE

\* The denial of a blocked client address.
DenyByIpFilter(r, tr) ==
    IF ~config.blocked_status_code.some
        THEN Finish(r, Aborted("unwrap on None"), tr)
    ELSE IF ~StatusCode_from_u16(config.blocked_status_code.val).ok
        THEN Finish(r, Aborted("unwrap on invalid status"), tr)
    ELSE Finish(r, Denied("ipfilter", config.blocked_status_code.val, None,
                          "Access denied by Botwaf IP Filter"), tr)

\* ipfilter.is_blocked(incoming).await.unwrap_or(false), and the denial.
IpFilterCheck(r) ==
    /\ pc[r] = "ipfilter"
    /\ \E backend \in BOOLEAN :
         LET res == is_blocked(bitmap, incoming[r].client_ip, backend)
             tr  == [Called(r, "ipfilter") EXCEPT !.filter = Some(res)]
         IN  IF unwrap_or_false(res)
                 THEN DenyByIpFilter(r, tr)
                 ELSE /\ pc' = [pc EXCEPT ![r] = "engine"]
                      /\ trail' = [trail EXCEPT ![r] = tr]
                      /\ UNCHANGED << incoming, resp >>
    /\ UNCHANGED << config, ctlVars, regVars, ipVars >>

\* Variant: every redirect or error status blocks.
IsBlockingStatus_From300(status) == status >= 300

\* intervention.status() == 401 || intervention.status() == 403
IsBlockingStatus(status) == status = 401 \/ status = 403

\* .expect(...) on a failed engine call: the handler panics.
EngineFailure(r, tr, step) == Finish(r, Aborted(step), tr)

\* Variant: the denial is built but the request is forwarded all the same.
DenyByEngine_ThenForward(r, tr, iv) ==
    Finish(r, Denied("engine", iv.status, Some(rule_id_of(config, iv.log)),
                     "Access denied by Botwaf Threaten"),
           [tr EXCEPT !.calls = Append(@, "forwarder")])

\* The denial of a request the engine intervened on.
DenyByEngine(r, tr, iv) ==
    LET status_code == IF StatusCode_from_u16(iv.status).ok THEN iv.status ELSE 500
        rule_id == rule_id_of(config, iv.log)
        body == "Access denied by Botwaf Threaten"
    IN  IF ~config.blocked_status_code.some
            THEN Finish(r, Denied("engine", status_code, Some(rule_id), body), tr)
        ELSE IF ~StatusCode_from_u16(config.blocked_status_code.val).ok
            THEN Finish(r, Aborted("unwrap on invalid status"), tr)
        ELSE Finish(r, Denied("engine", config.blocked_status_code.val,
                              Some(rule_id), body), tr)

\* The ModSecurity transaction, up to the verdict.
Transaction(r) ==
    /\ pc[r] = "engine"
    /\ \E out \in EngineOutcomes :
         LET tr == [Called(r, "engine") EXCEPT !.engine = Some(out)]
             iv == out.intervention
         IN  IF out.failed.some
                 THEN EngineFailure(r, tr, out.failed.val)
             ELSE IF iv.some /\ IsBlockingStatus(iv.val.status)
                 THEN DenyByEngine(r, tr, iv.val)
             ELSE /\ pc' = [pc EXCEPT ![r] = "forward"]
                  /\ trail' = [trail EXCEPT ![r] = tr]
                  /\ UNCHANGED << incoming, resp >>
    /\ UNCHANGED << config, ctlVars, regVars, ipVars >>

\* HttpForwardHandler::get_upstream_url
get_upstream_url(cfg, inc) ==
    LET name == cfg.upstream_destination_header_name IN
    IF name \notin DOMAIN inc.headers
        THEN Err("Missing upstream destination header")
        ELSE LET base == IF inc.headers[name].some THEN inc.headers[name].val ELSE << >>
                 ends == base # << >> /\ base[Len(base)] = "/"
                 starts == inc.path # << >> /\ Head(inc.path) = "/"
             IN  Ok(IF ends /\ starts THEN base \o Tail(inc.path)
                    ELSE IF ~ends /\ ~starts THEN base \o << "/" >> \o inc.path
                    ELSE base \o inc.path)

\* do_forward_request, the request headers: every entry of incoming.headers
\* but the skipped names, each with its value if it has one; name -> values.
do_forward_request_headers(cfg, inc) ==
    LET upstream_header == Upper(cfg.upstream_destination_header_name)
        kept == { n \in DOMAIN inc.headers :
                    /\ Upper(n) # upstream_header
                    /\ Upper(n) # "POST"
                    /\ Upper(n) # "CONNECTION"
                    /\ inc.headers[n].some }
    IN  [n \in kept |-> << inc.headers[n].val >>]

\* HeaderMap::into_iter: the name comes with the first value of a header
\* only, the further values of that header come with None.
RECURSIVE IntoIter(_)
IntoIter(hm) ==
    IF hm = << >> THEN << >>
    ELSE LET g == Head(hm) IN
         << << Some(g.name), g.values[1] >> >>
         \o [i \in 1..(Len(g.values) - 1) |-> << None, g.values[i + 1] >>]
         \o IntoIter(Tail(hm))

\* do_forward_request, the response headers: name -> values.
RECURSIVE CopyResponseHeaders(_, _)
CopyResponseHeaders(items, map) ==
    IF items = << >> THEN map
    ELSE LET name == Head(items)[1]
             value == Head(items)[2]
         IN  IF name.some /\ name.val # "connection"
                 THEN CopyResponseHeaders(Tail(items),
                          [n \in DOMAIN map \cup { name.val } |->
                              IF n = name.val THEN << value >> ELSE map[n]])
                 ELSE CopyResponseHeaders(Tail(items), map)

\* The headers of an upstream response, as the HeaderMap holds them.
UpstreamHeaders ==
    << [name |-> "set-cookie", values |-> << "a=1", "b=2" >>],
       [name |-> "connection", values |-> << "close" >>],
       [name |-> "content-type", values |-> << "text/plain" >>] >>

UpstreamResults ==
    { Ok([status |-> 200, headers |-> UpstreamHeaders]), Err("network") }

\* The forwarder is looked up and http_forward awaited.
Forward(r) ==
    /\ pc[r] = "forward"
    /\ LET tr  == [Called(r, "forwarder") EXCEPT !.wire = incoming[r].wire]
           url == get_upstream_url(config, incoming[r])
       IN  IF ~get_implementation(forwarderImpls, HttpForwardHandler_NAME).ok
               THEN Finish(r, Aborted("Failed to get forwarder implementation"), trail[r])
           ELSE IF ~url.ok
               THEN Finish(r, GatewayError, tr)
           ELSE \E up \in UpstreamResults :
                   Finish(r,
                          IF up.ok
                              THEN Relayed(up.val.status,
                                           CopyResponseHeaders(IntoIter(up.val.headers),
                                                               EmptyMap))
                              ELSE GatewayError,
                          [tr EXCEPT !.upstream = Some(url.val),
                                     !.sent = Some(do_forward_request_headers(
                                                       config, incoming[r])),
                                     !.reply = IF up.ok THEN Some(up.val.headers)
                                               ELSE None])
    /\ UNCHANGED << config, ctlVars, regVars, ipVars >>

\* ------------------------------------------------------------------------
\* The scheduled jobs.  The scheduler started by init() runs the job's
\* closure at every time of its schedule; the closure clones the handler and
\* awaits update() or verify().  A task is one such run.
\* ------------------------------------------------------------------------
MaxTicks == 2

baseVars == << config, started, ipfilterImpls, forwarderImpls, ipVars, reqVars,
               initVars >>

\* One step of a run: whether it succeeded and whether anything was written
\* to the log or to stderr about it.
Step(name, ok, logged) == [step |-> name, ok |-> ok, logged |-> logged]
Task(h, position, steps) == [handler |-> h, pc |-> position, steps |-> steps]

Running(h) ==
    { t \in DOMAIN tasks : tasks[t].handler = h /\ tasks[t].pc \notin { "done", "panicked" } }

Advance(t, position, step) ==
    tasks' = [tasks EXCEPT ![t] = Task(@.handler, position, Append(@.steps, step))]

\* The scheduler of updater h reaches a time of its job's schedule: the
\* closure is called and its future is spawned.  Nothing in the closure or in
\* update() looks at the runs already in progress.
SimpleLLMUpdater_tick(h) ==
    /\ h \in DOMAIN handlers
    /\ handlers[h].reg = "updater"
    /\ handlers[h].job.some
    /\ Len(tasks) < MaxTicks
    /\ tasks' = Append(tasks, Task(h, "add_malicious", << >>))
    /\ UNCHANGED << baseVars, serve, webReq, current_user, upload >>

\* VectorStore::add_documents
AddDocumentsResults == { Ok(0), Err("vector store") }

\* update(): `let _ = self.pgvec_store.add_documents(&attack_samples, ..).await`.
SimpleLLMUpdater_update_malicious(t, res) ==
    /\ t \in DOMAIN tasks
    /\ tasks[t].pc = "add_malicious"
    /\ Advance(t, "add_normal", Step("add_documents(malicious)", res.ok, FALSE))
    /\ UNCHANGED << baseVars, serve, webReq, current_user, upload >>

\* update(): `let _ = self.pgvec_store.add_documents(&normal_samples, ..).await`.
SimpleLLMUpdater_update_normal(t, res) ==
    /\ t \in DOMAIN tasks
    /\ tasks[t].pc = "add_normal"
    /\ Advance(t, "retriever", Step("add_documents(normal)", res.ok, FALSE))
    /\ UNCHANGED << baseVars, serve, webReq, current_user, upload >>

\* The strong count of handler h's pgvec_store: the registered handler, the
\* clone `this` held by the job's closure, and the clone `that` of every run
\* in progress.
Arc_strong_count(h) == 2 + Cardinality(Running(h))

\* Arc::try_unwrap: the inner value only if this is the one strong reference.
Arc_try_unwrap(strong) == IF strong = 1 THEN Ok(0) ELSE Err(0)

\* ConversationalRetrieverChain::invoke
InvokeResults == { Ok(0), Err("llm") }

\* update() from Retriever::new to its end: Arc::try_unwrap of a fresh clone
\* of pgvec_store (to_owned adds one strong reference), a panic in the
\* closure passed to unwrap_or_else, else the chain is built and invoked and
\* only an Ok result is printed.  A panic unwinds the run's task; the
\* panic hook writes the message to stderr.
SimpleLLMUpdater_update_chain(t, res) ==
    /\ t \in DOMAIN tasks
    /\ tasks[t].pc = "retriever"
    /\ IF Arc_try_unwrap(Arc_strong_count(tasks[t].handler) + 1).ok
           THEN Advance(t, "done", Step("invoke", res.ok, res.ok))
           ELSE Advance(t, "panicked", Step("Arc::try_unwrap", FALSE, TRUE))
    /\ UNCHANGED << baseVars, serve, webReq, current_user, upload >>

\* The scheduler of verifier h reaches a time of its job's schedule; verify()
\* writes two log lines and returns without a suspension point.
SimpleExecuteBasedVerifier_tick(h) ==
    /\ h \in DOMAIN handlers
    /\ handlers[h].reg = "verifier"
    /\ handlers[h].job.some
    /\ Len(tasks) < MaxTicks
    /\ tasks' = Append(tasks, Task(h, "done", << Step("verify", TRUE, TRUE) >>))
    /\ UNCHANGED << baseVars, serve, webReq, current_user, upload >>

\* ------------------------------------------------------------------------
\* LangchainLLMHandler::embedding.  `info` is owned by the call; its status
\* is what the caller sees when the call returns.
\* ------------------------------------------------------------------------
RECEIVED   == "RECEIVED"
PERSISTING == "PERSISTING"
PREPARING  == "PREPARING"
EMBEDDING  == "EMBEDDING"
EMBEDDED   == "EMBEDDED"
FAILED     == "FAILED"

\* A file is the sequence of what reader.lines() yields: Ok(content) or an
\* Err for a line that cannot be read.
LineGet   == Ok(<< "G", "E", "T", " ", "/" >>)
LinePost  == Ok(<< "P", "O", "S", "T", " ", "/" >>)
LineBlank == Ok(<< " ", " " >>)
LineEmpty == Ok(<< >>)
LineBad   == Err("invalid utf-8")
FileSamples ==
    { << >>, << LineGet >>, << LineBlank, LineGet >>, << LineBad, LineGet >>,
      << LineGet, LineEmpty, LineGet >>, << LinePost, LineGet >> }

UploadInfoSamples ==
    { [name |-> n, category |-> c, labels |-> l] :
        n \in { "a.log", "b.log" }, c \in { "NORMAL", "MALICIOUS" },
        l \in { {}, { << "env", "prod" >> } } }

\* content.trim().is_empty()
trim_is_empty(content) == \A i \in 1..Len(content) : content[i] \in { " ", "\t" }

\* The documents of a file: one per readable line that is not blank, with
\* the file name, the line's index (from 0) and the labels as metadata.
RECURSIVE Documents(_, _, _)
Documents(info, file, line_num) ==
    IF line_num >= Len(file) THEN << >>
    ELSE LET line_result == file[line_num + 1]
             rest == Documents(info, file, line_num + 1)
         IN  IF line_result.ok /\ ~trim_is_empty(line_result.val)
                 THEN << [content |-> line_result.val, filename |-> info.name,
                          linenum |-> line_num, labels |-> info.labels] >> \o rest
                 ELSE rest

\* The name space the documents go to.
store_options(info) ==
    IF info.category = "NORMAL" THEN "NORMAL" ELSE "MALICIOUS"

NoUpload == [pc |-> "idle"]

\* embedding() up to the `.await` of add_documents: the status is assigned
\* RECEIVED, PERSISTING, PREPARING, the documents are built, the status is
\* assigned EMBEDDING.
embedding_prepare(info, file) ==
    /\ upload.pc = "idle"
    /\ upload' = [pc |-> "add_documents", info |-> info,
                  status |-> EMBEDDING,
                  assigned |-> << RECEIVED, PERSISTING, PREPARING, EMBEDDING >>,
                  documents |-> Documents(info, file, 0),
                  name_space |-> store_options(info)]
    /\ UNCHANGED << baseVars, tasks, serve, webReq, current_user >>

\* The arms of the match on add_documents' result, with the Err arm leaving
\* the status as it is.
embedding_outcome_Unchanged(res) == IF res.ok THEN EMBEDDED ELSE EMBEDDING

\* The arms of the match on add_documents' result.
embedding_outcome(res) == IF res.ok THEN EMBEDDED ELSE FAILED

\* add_documents has completed: the status is assigned and Ok(info) returned.
embedding_return(res) ==
    /\ upload.pc = "add_documents"
    /\ upload' = [upload EXCEPT !.pc = "returned",
                                !.status = embedding_outcome(res),
                                !.assigned = Append(@, embedding_outcome(res))]
    /\ UNCHANGED << baseVars, tasks, serve, webReq, current_user >>

\* ------------------------------------------------------------------------
\* The web server: axum::serve with graceful shutdown, auth_middleware in
\* front of the routes, SecurityContext behind them.
\* ------------------------------------------------------------------------
MaxWebRequests == 2
WebReqs == 1..MaxWebRequests

\* How long in-flight requests are waited for, in units of time.
DrainWindow == 2

PathCurrentUser == << "/", "sys", "/", "user", "/", "current" >>
ROOT_URI == << "/" >>
WebPathSamples == { PathHealthz, PathCurrentUser }

\* A bearer token: whether validate_jwt accepts it and for whom, whether it
\* has expired, and what the log-out blacklist lookup gives.
Token(valid, uname, expired, blacklist) ==
    [valid |-> valid, uname |-> uname, expired |-> expired, blacklist |-> blacklist]
TokenAlice   == Token(TRUE, "alice", FALSE, Ok(None))
TokenBob     == Token(TRUE, "bob", FALSE, Ok(None))
TokenExpired == Token(TRUE, "bob", TRUE, Ok(None))
TokenForged  == Token(FALSE, "alice", FALSE, Ok(None))
\* The Authorization header or the cookie, if any.
CredentialSamples == { None, Some(TokenAlice), Some(TokenBob), Some(TokenExpired),
                       Some(TokenForged) }

\* validate_token: << is_authenticated, claims >>.
validate_token(ak) ==
    IF ~ak.valid THEN << FALSE, None >>
    ELSE IF ak.expired THEN << FALSE, Some(ak.uname) >>
    ELSE IF ak.blacklist.ok THEN << ~ak.blacklist.val.some, Some(ak.uname) >>
    ELSE << TRUE, Some(ak.uname) >>

NoWebRequest == [pc |-> "idle"]
InFlight(r) == webReq[r].pc \in { "auth", "handler" }

\* A connection is accepted and its request enters auth_middleware.
Accept(r, path, credential) ==
    /\ serve.phase = "running"
    /\ webReq[r].pc = "idle"
    /\ webReq' = [webReq EXCEPT ![r] = [pc |-> "auth", path |-> path,
                                        credential |-> credential]]
    /\ UNCHANGED << baseVars, tasks, serve, current_user, upload >>

\* SecurityContext::bind
bind(user) == IF user.some THEN current_user' = user ELSE UNCHANGED current_user

\* SecurityContext::get
get == current_user

\* next.run(req): the request goes on to its route's handler.
ToHandler(r, claims) ==
    webReq' = [webReq EXCEPT ![r] = [pc |-> "handler", path |-> @.path,
                                     credential |-> @.credential, claims |-> claims]]

WebDone(r, status, claims, read, seen) ==
    webReq' = [webReq EXCEPT ![r] = [pc |-> "done", path |-> @.path,
                                     credential |-> @.credential, status |-> status,
                                     claims |-> claims, read |-> read, seen |-> seen]]

\* auth_middleware up to next.run(req): an anonymous path passes; otherwise
\* the token is validated and, if authenticated, its claims are bound.
auth_middleware(r) ==
    /\ webReq[r].pc = "auth"
    /\ LET path == clean_context_path(config.context_path, webReq[r].path)
           v == IF webReq[r].credential.some
                    THEN validate_token(webReq[r].credential.val)
                    ELSE << FALSE, None >>
       IN  IF is_anonymous_request(config, webReq[r].path)
               THEN /\ ToHandler(r, None)
                    /\ UNCHANGED current_user
           ELSE IF v[1]
               THEN /\ bind(v[2])
                    /\ IF path = ROOT_URI
                           THEN WebDone(r, 200, v[2], FALSE, None)
                           ELSE ToHandler(r, v[2])
           ELSE /\ WebDone(r, 401, None, FALSE, None)
                /\ UNCHANGED current_user
    /\ UNCHANGED << baseVars, tasks, serve, upload >>

\* The route's handler: handle_get_current_user reads the security context;
\* the health route does not.
handle(r) ==
    /\ webReq[r].pc = "handler"
    /\ IF webReq[r].path = PathCurrentUser
           THEN WebDone(r, 200, webReq[r].claims, TRUE, get)
           ELSE WebDone(r, 200, webReq[r].claims, FALSE, None)
    /\ UNCHANGED << baseVars, tasks, serve, current_user, upload >>

\* tokio_graceful_shutdown_signal() resolves: serve stops accepting and
\* waits for the connections in flight.
ShutdownSignal ==
    /\ serve.phase = "running"
    /\ serve' = [phase |-> "draining", waited |-> 0]
    /\ UNCHANGED << baseVars, tasks, webReq, current_user, upload >>

\* Time passes while a request is in flight; serve keeps waiting.
Elapse ==
    /\ serve.phase = "draining"
    /\ \E r \in WebReqs : InFlight(r)
    /\ serve.waited < DrainWindow
    /\ serve' = [serve EXCEPT !.waited = @ + 1]
    /\ UNCHANGED << baseVars, tasks, webReq, current_user, upload >>

\* No connection is left: serve returns Ok and start() returns.
ServeReturns ==
    /\ serve.phase = "draining"
    /\ \A r \in WebReqs : ~InFlight(r)
    /\ serve' = [serve EXCEPT !.phase = "stopped"]
    /\ UNCHANGED << baseVars, tasks, webReq, current_user, upload >>

\* The control plane and the web server before anything has run.
InitControl ==
    /\ tasks = << >>
    /\ serve = [phase |-> "running", waited |-> 0]
    /\ webReq = [r \in WebReqs |-> NoWebRequest]
    /\ current_user = None
    /\ upload = NoUpload

\* ------------------------------------------------------------------------
\* Specifications.
\* ------------------------------------------------------------------------
\* The registries before any init() has run.
InitRegistries ==
    /\ implementations = [g \in Registries |-> EmptyMap]
    /\ rwlock = [g \in Registries |-> "free"]
    /\ initTask = Idle
    /\ initRuns = [e \in EntryPoints |-> 0]
    /\ handlers = << >>
    /\ lastRegister = NoRegister

Init ==
    /\ config \in ConfigSamples
    /\ services = DefaultServices
    /\ InitRegistries
    /\ started = FALSE
    /\ ipfilterImpls = {}
    /\ forwarderImpls = {}
    /\ bitmap = {}
    /\ lastWrite = [a \in AddrSamples |-> "none"]
    /\ lastWriteAt = [o \in AllOffsets |-> "none"]
    /\ lastQuery = NoQuery
    /\ pc = [r \in Reqs |-> "idle"]
    /\ incoming = [r \in Reqs |-> NoRequest]
    /\ resp = [r \in Reqs |-> Pending]
    /\ trail = [r \in Reqs |-> NoTrail]
    /\ InitControl

Next ==
    \/ ManagerInit
    \/ \E r \in Reqs, path \in PathSamples, wire \in WireHeaderSamples,
          body_len \in BodyLenSamples, client_ip \in PipelineClientIps :
          Receive(r, path, wire, body_len, client_ip)
    \/ \E r \in Reqs : IpFilterCheck(r)
    \/ \E r \in Reqs : Transaction(r)
    \/ \E r \in Reqs : Forward(r)
    \/ \E a \in PipelineAddrs : BlockIp(Some(a))
    \/ \E a \in PipelineAddrs : UnblockIp(Some(a))

Spec == Init /\ [][Next]_vars

\* The IP filter on its own: block_ip, unblock_ip and is_blocked called with
\* any client address text.
NextIPFilter ==
    \/ \E c \in ClientIpSamples : BlockIp(c)
    \/ \E c \in ClientIpSamples : UnblockIp(c)
    \/ \E c \in ClientIpSamples : IsBlocked(c)

DefaultConfig ==
    [blocked_status_code |-> None,
     allow_addition_modsec_info |-> TRUE,
     upstream_destination_header_name |-> "X-Upstream-Destination",
     max_body_bytes |-> DefaultMaxBodyBytes,
     context_path |-> None,
     anonymous_paths |-> None]

InitIPFilter == Init /\ config = DefaultConfig

SpecIPFilter == InitIPFilter /\ [][NextIPFilter]_vars

\* The client address of a request: addresses are blocked and unblocked, and
\* requests with X-Forwarded-For, X-Real-IP and a peer address are looked up.
NextClientIp ==
    \/ \E a \in { Ip10_0_0_1, IpV4Max } : BlockIp(Some(a))
    \/ \E a \in { Ip10_0_0_1, IpV4Max } : UnblockIp(Some(a))
    \/ \E xff \in XForwardedForSamples, xreal \in XRealIpSamples, peer \in PeerSamples :
          IsBlockedRequest(xff, xreal, peer)

SpecClientIp == InitIPFilter /\ [][NextClientIp]_vars

\* The anonymous-path test on its own: requests on all kinds of paths, with
\* and without configured anonymous paths.
GlobOpen == << "/", "open", "/", "**" >>
AnonymousPathsSamples == { None, Some({}), Some({ GlobOpen }) }

PathHealthzLive == << "/", "healthz", "/", "live" >>
PathPublic      == << "/", "public", "/", "logo.png" >>
PathOpen        == << "/", "open", "/", "x" >>
AnonymousPathSamples ==
    { PathHealthz, PathHealthzLive, PathStatic, PathPublic, PathOpen, PathAdmin }

NextAnonymous ==
    \/ ManagerInit
    \/ \E r \in Reqs, path \in AnonymousPathSamples :
          Receive(r, path, WireWithUpstream, DefaultMaxBodyBytes, Some(Ip10_0_0_1))
    \/ \E r \in Reqs : IpFilterCheck(r)
    \/ \E r \in Reqs : Transaction(r)
    \/ \E r \in Reqs : Forward(r)

InitAnonymous ==
    /\ config \in { [DefaultConfig EXCEPT !.anonymous_paths = ap] :
                       ap \in AnonymousPathsSamples }
    /\ services = DefaultServices
    /\ InitRegistries
    /\ started = FALSE
    /\ ipfilterImpls = {}
    /\ forwarderImpls = {}
    /\ bitmap = {}
    /\ lastWrite = [a \in AddrSamples |-> "none"]
    /\ lastWriteAt = [o \in AllOffsets |-> "none"]
    /\ lastQuery = NoQuery
    /\ pc = [r \in Reqs |-> "idle"]
    /\ incoming = [r \in Reqs |-> NoRequest]
    /\ resp = [r \in Reqs |-> Pending]
    /\ trail = [r \in Reqs |-> NoTrail]
    /\ InitControl

SpecAnonymous == InitAnonymous /\ [][NextAnonymous]_vars

\* The forwarder on its own: requests with all kinds of headers from one
\* client on one path, under the default denial settings.
NextForward ==
    \/ ManagerInit
    \/ \E r \in Reqs, wire \in ForwardWireSamples :
          Receive(r, PathAdmin, wire, DefaultMaxBodyBytes, Some(Ip10_0_0_1))
    \/ \E r \in Reqs : IpFilterCheck(r)
    \/ \E r \in Reqs : Transaction(r)
    \/ \E r \in Reqs : Forward(r)

InitForward ==
    /\ Init
    /\ config.blocked_status_code = None
    /\ config.allow_addition_modsec_info

SpecForward == InitForward /\ [][NextForward]_vars

\* Start-up on its own: the init() functions, run one after another, any of
\* them possibly more than once, over the configured updaters and verifiers.
NextRegistry ==
    \/ \E e \in EntryPoints : StartInit(e)
    \/ IPFilterManager_init_register
    \/ IPFilterManager_init_hook
    \/ BotwafForwarderManager_init_register
    \/ BotwafForwarderManager_init_hook
    \/ LLMManager_init_lock
    \/ LLMManager_init_register
    \/ LLMManager_init_hook
    \/ BotwafUpdaterManager_init_next
    \/ BotwafUpdaterManager_init_register
    \/ BotwafUpdaterManager_init_hook
    \/ BotwafVerifierManager_init_next
    \/ BotwafVerifierManager_init_register
    \/ BotwafVerifierManager_init_lookup
    \/ BotwafVerifierManager_init_hook

InitRegistry ==
    /\ config = DefaultConfig
    /\ services \in ServicesSamples
    /\ InitRegistries
    /\ started = FALSE
    /\ ipfilterImpls = {}
    /\ forwarderImpls = {}
    /\ bitmap = {}
    /\ lastWrite = [a \in AddrSamples |-> "none"]
    /\ lastWriteAt = [o \in AllOffsets |-> "none"]
    /\ lastQuery = NoQuery
    /\ pc = [r \in Reqs |-> "idle"]
    /\ incoming = [r \in Reqs |-> NoRequest]
    /\ resp = [r \in Reqs |-> Pending]
    /\ trail = [r \in Reqs |-> NoTrail]
    /\ InitControl

SpecRegistry == InitRegistry /\ [][NextRegistry]_vars

\* The updater and verifier processes: their init() functions and the runs
\* of the jobs these schedule, over updaters and verifiers configured with
\* all kinds of cron expressions.
SchedulerServicesSamples ==
    { [updaters |-> << WithCron(Entry("u1", SimpleLLMUpdater_KIND, TRUE), cu) >>,
       verifiers |-> << WithCron(Entry("v1", SimpleExecuteBasedVerifier_KIND, TRUE), cv) >>] :
        cu \in { CronEverySecond, CronWords },
        cv \in { PropertiesDefaultCron, CronBadField } }

NextScheduler ==
    \/ \E e \in { "updater", "verifier" } : StartInit(e)
    \/ BotwafUpdaterManager_init_next
    \/ BotwafUpdaterManager_init_register
    \/ BotwafUpdaterManager_init_hook
    \/ BotwafVerifierManager_init_next
    \/ BotwafVerifierManager_init_register
    \/ BotwafVerifierManager_init_lookup
    \/ BotwafVerifierManager_init_hook
    \/ \E h \in 1..MaxInitRuns : SimpleLLMUpdater_tick(h)
    \/ \E t \in 1..MaxTicks, res \in AddDocumentsResults :
          SimpleLLMUpdater_update_malicious(t, res)
    \/ \E t \in 1..MaxTicks, res \in AddDocumentsResults :
          SimpleLLMUpdater_update_normal(t, res)
    \/ \E t \in 1..MaxTicks, res \in InvokeResults :
          SimpleLLMUpdater_update_chain(t, res)
    \/ \E h \in 1..MaxInitRuns : SimpleExecuteBasedVerifier_tick(h)

InitScheduler ==
    /\ config = DefaultConfig
    /\ services \in SchedulerServicesSamples
    /\ InitRegistries
    /\ started = FALSE
    /\ ipfilterImpls = {}
    /\ forwarderImpls = {}
    /\ bitmap = {}
    /\ lastWrite = [a \in AddrSamples |-> "none"]
    /\ lastWriteAt = [o \in AllOffsets |-> "none"]
    /\ lastQuery = NoQuery
    /\ pc = [r \in Reqs |-> "idle"]
    /\ incoming = [r \in Reqs |-> NoRequest]
    /\ resp = [r \in Reqs |-> Pending]
    /\ trail = [r \in Reqs |-> NoTrail]
    /\ InitControl

SpecScheduler == InitScheduler /\ [][NextScheduler]_vars

\* The embedding call on its own, over files and upload descriptions.
NextEmbedding ==
    \/ \E info \in UploadInfoSamples, file \in FileSamples : embedding_prepare(info, file)
    \/ \E res \in AddDocumentsResults : embedding_return(res)

SpecEmbedding == InitIPFilter /\ [][NextEmbedding]_vars

\* The web server: requests with all kinds of credentials, and the
\* shutdown signal.
NextWebServer ==
    \/ \E r \in WebReqs, path \in WebPathSamples, credential \in CredentialSamples :
          Accept(r, path, credential)
    \/ \E r \in WebReqs : auth_middleware(r)
    \/ \E r \in WebReqs : handle(r)
    \/ ShutdownSignal
    \/ Elapse
    \/ ServeReturns

SpecWebServer == InitIPFilter /\ [][NextWebServer]_vars

\* ------------------------------------------------------------------------
\* Properties.
\* ------------------------------------------------------------------------
CallCount(calls, who) == Cardinality({ i \in 1..Len(calls) : calls[i] = who })
Consulted(r, who) == \E i \in 1..Len(trail[r].calls) : trail[r].calls[i] = who
AnonymousDone(r) == pc[r] = "done" /\ is_anonymous_request(config, trail[r].path)

C2_EngineAfterIpFilter ==
    \A r \in Reqs :
        \A i \in 1..Len(trail[r].calls) :
            trail[r].calls[i] = "engine" =>
                \E j \in 1..(i - 1) : trail[r].calls[j] = "ipfilter"

C2_Witness ==
    \E r \in Reqs : Consulted(r, "engine") /\ trail[r].engine.some

\* C3: a denied request, whether denied by the IP filter or by the rule
\* engine, is never handed to the forwarder and never reaches the upstream.
C3_DeniedNotForwarded ==
    \A r \in Reqs :
        resp[r].kind = "denied" =>
            /\ ~Consulted(r, "forwarder")
            /\ ~Consulted(r, "next")
            /\ ~trail[r].upstream.some

C3_Witness ==
    \E r \in Reqs : resp[r].kind = "denied" /\ resp[r].by = "engine"

\* C4: when a rule-engine step fails, the client receives an HTTP 500
\* response and the request is not forwarded.
C4_EngineFailureIs500 ==
    \A r \in Reqs :
        (pc[r] = "done" /\ trail[r].engine.some /\ trail[r].engine.val.failed.some) =>
            /\ resp[r].kind = "error"
            /\ resp[r].status = 500
            /\ ~Consulted(r, "forwarder")

\* C5: when is_blocked fails because the cache backend fails, the request
\* is treated as not blocked and goes on to the rule engine; the failure
\* itself yields neither a denial nor an error response.
C5_FilterErrorFailsOpen ==
    \A r \in Reqs :
        (/\ trail[r].filter.some
         /\ ~trail[r].filter.val.ok
         /\ trail[r].filter.val.err = "redis error") =>
            /\ pc[r] = "engine" \/ Consulted(r, "engine")
            /\ pc[r] = "engine" => resp[r] = Pending
            /\ ~(resp[r].kind = "denied" /\ resp[r].by = "ipfilter")

C5_Witness ==
    \E r \in Reqs :
        /\ trail[r].filter = Some(Err("redis error"))
        /\ Consulted(r, "engine")

\* C6: every denial response carries a status code between 300 and 599,
\* whatever services.blocked_status_code is.
C6_DenialStatusRange ==
    \A r \in Reqs :
        resp[r].kind = "denied" => (resp[r].status >= 300 /\ resp[r].status <= 599)

IsRuleId(v) == v # << >> /\ \A i \in 1..Len(v) : IsDigit(v[i])

\* C7 (as stated): every denied response carries the blocked header, whose
\* value is "Masked" when allow_addition_modsec_info is false and otherwise
\* the id of the triggering rule; no other value is sent.
C7_Original ==
    \A r \in Reqs :
        resp[r].kind = "denied" =>
            /\ resp[r].header.some
            /\ IF config.allow_addition_modsec_info
                   THEN IsRuleId(resp[r].header.val)
                   ELSE resp[r].header.val = Masked

\* The id each sample log holds, read off the log by hand.
ExpectedRuleId(log) ==
    CASE log = Some(LogPlain)  -> << "9", "4", "2" >>
      [] log = Some(LogSpaced) -> << "7" >>
      [] OTHER -> Unknown

\* C7 (amended): every denial produced by the rule engine carries the
\* blocked header; its value is "Masked" when allow_addition_modsec_info is
\* false, and otherwise the rule id found in the intervention log or, when
\* the log is absent or holds no [id "<digits>"], the literal "Unknown".  A
\* denial produced by the IP filter carries no such header.
C7_EngineDenialHeader ==
    \A r \in Reqs :
        resp[r].kind = "denied" =>
            IF resp[r].by = "engine"
                THEN resp[r].header =
                        Some(IF config.allow_addition_modsec_info
                                 THEN ExpectedRuleId(trail[r].engine.val.intervention.val.log)
                                 ELSE Masked)
                ELSE resp[r].header = None

C7_Witness ==
    \E r \in Reqs :
        /\ resp[r].kind = "denied"
        /\ resp[r].by = "engine"
        /\ resp[r].header = Some(<< "7" >>)

\* C8: an intervention denies the request only if its status is 401 or 403;
\* with no intervention, or any other status, the request goes to the
\* forwarder.
C8_OnlyBlockingStatusDenies ==
    \A r \in Reqs :
        (trail[r].engine.some /\ ~trail[r].engine.val.failed.some) =>
            LET iv == trail[r].engine.val.intervention
                blocking == iv.some /\ iv.val.status \in { 401, 403 }
            IN  /\ (resp[r].kind = "denied" /\ resp[r].by = "engine") => blocking
                /\ ~blocking => (pc[r] = "forward" \/ Consulted(r, "forwarder"))

C8_Witness ==
    \E r \in Reqs :
        /\ trail[r].engine.some
        /\ trail[r].engine.val.intervention = Some([status |-> 302, log |-> None])
        /\ Consulted(r, "forwarder")

\* C9 (as stated): after a completed block_ip(ip), is_blocked(ip) returns
\* true, and after a completed unblock_ip(ip) it returns false, when no
\* other write to that address came in between.
C9_Original ==
    (lastQuery.asked /\ lastQuery.result.ok) =>
        /\ lastQuery.after = "block" => lastQuery.result.val = TRUE
        /\ lastQuery.after = "unblock" => lastQuery.result.val = FALSE

\* C9 (amended): after a completed block_ip(ip), is_blocked(ip) returns
\* true, and after a completed unblock_ip(ip) it returns false, when no
\* other write to that address, or to an address that maps to the same
\* bitmap offset, came in between.
C9_BlockThenBlocked ==
    (lastQuery.asked /\ lastQuery.result.ok) =>
        /\ lastQuery.afterAt = "block" => lastQuery.result.val = TRUE
        /\ lastQuery.afterAt = "unblock" => lastQuery.result.val = FALSE

C9_Witness ==
    /\ lastQuery.asked
    /\ lastQuery.ip = Some(Ip6Db8_1)
    /\ lastQuery.afterAt = "block"
    /\ lastQuery.result = Ok(TRUE)
    /\ lastWrite[Ip6Db8_2] = "unblock"

\* The offset the description gives: the big-endian 32-bit integer of an
\* IPv4 address, the low 32 bits of the 128-bit integer of an IPv6 address.
ClaimedOffset(addr) ==
    LET o == addr.octets IN
    IF addr.kind = "v4"
        THEN << o[1] * 256 + o[2], o[3] * 256 + o[4] >>
        ELSE << o[13] * 256 + o[14], o[15] * 256 + o[16] >>

\* C10: the bitmap offset of an IPv4 address is its big-endian 32-bit
\* integer, and that of an IPv6 address is its 128-bit integer modulo 2^32.
C10_OffsetFormula ==
    (lastQuery.asked /\ lastQuery.offset.ok) =>
        lastQuery.offset.val = ClaimedOffset(lastQuery.ip.val)

\* C12: in every registry, registering a name that is already registered is
\* not an error, leaves the map unchanged and returns the handler already
\* stored under the name (not the one offered); so no second run of an
\* init() fails.
C12_RegisterIdempotent ==
    /\ initTask.pc # "panicked"
    /\ (lastRegister.called /\ lastRegister.name \in DOMAIN lastRegister.before) =>
           /\ lastRegister.result.ok
           /\ lastRegister.after = lastRegister.before
           /\ lastRegister.result.val = lastRegister.before[lastRegister.name]

\* C13: at no await of a registration path (the construction of a component,
\* its init hook) does the start-up task hold a registry's write lock.
C13_NoWriteLockAcrossAwait ==
    initTask.pc \in AwaitPositions => \A g \in Registries : rwlock[g] # "write"

Stored(g, h) == \E n \in DOMAIN implementations[g] : implementations[g][n] = h
EntriesOf(g) == IF g = "updater" THEN services.updaters ELSE services.verifiers
KindOf(g) ==
    IF g = "updater" THEN SimpleLLMUpdater_KIND ELSE SimpleExecuteBasedVerifier_KIND

\* C14: once the init() of the updaters (of the verifiers) has run at
\* start-up, every configured, enabled entry has its own handler stored in
\* the registry, the init hook has run exactly once on each stored handler
\* and on no handler that is not stored.
C14_EveryEntryOwnHandle ==
    \A g \in { "updater", "verifier" } :
        (initTask.pc = "idle" /\ initRuns[g] = 1) =>
            /\ \A i \in 1..Len(EntriesOf(g)) :
                  (EntriesOf(g)[i].enabled /\ EntriesOf(g)[i].kind = KindOf(g)) =>
                      \E h \in 1..Len(handlers) :
                          /\ handlers[h].reg = g
                          /\ handlers[h].entry = i
                          /\ Stored(g, h)
            /\ \A h \in 1..Len(handlers) :
                  handlers[h].reg = g =>
                      handlers[h].inits = (IF Stored(g, h) THEN 1 ELSE 0)

HasHeader(wire, name) == \E i \in 1..Len(wire) : Lower(wire[i][1]) = Lower(name)
ReachedForwarder(r) == pc[r] = "done" /\ Consulted(r, "forwarder")

\* C15: a request that reaches the forwarder without an upstream-destination
\* header gets an HTTP 502 response, and no upstream request is made.
C15_MissingUpstreamIs502 ==
    \A r \in Reqs :
        (/\ ReachedForwarder(r)
         /\ ~HasHeader(trail[r].wire, config.upstream_destination_header_name)) =>
            /\ resp[r].kind = "error"
            /\ resp[r].status = 502
            /\ ~trail[r].upstream.some

\* C16: the upstream-destination header is found whenever the request has a
\* header whose name equals the configured name ignoring letter case.
C16_UpstreamHeaderAnyCase ==
    \A r \in Reqs :
        (/\ ReachedForwarder(r)
         /\ HasHeader(trail[r].wire, config.upstream_destination_header_name)) =>
            trail[r].upstream.some

NotForwarded == { "host", "connection", Lower(config.upstream_destination_header_name) }

\* C17: the request sent upstream has none of the inbound Host and Connection
\* headers and the upstream-destination header, and has every other inbound
\* header.
C17_HopHeadersDropped ==
    \A r \in Reqs :
        trail[r].sent.some =>
            LET sent == trail[r].sent.val
                wire == trail[r].wire
            IN  /\ \A n \in NotForwarded : n \notin DOMAIN sent
                /\ \A i \in 1..Len(wire) :
                      Lower(wire[i][1]) \notin NotForwarded =>
                          /\ Lower(wire[i][1]) \in DOMAIN sent
                          /\ \E j \in 1..Len(sent[Lower(wire[i][1])]) :
                                sent[Lower(wire[i][1])][j] = wire[i][2]

\* The values the wire carries under one name, in order.
RECURSIVE ValuesOf(_, _)
ValuesOf(wire, name) ==
    IF wire = << >> THEN << >>
    ELSE (IF Lower(Head(wire)[1]) = name THEN << Head(wire)[2] >> ELSE << >>)
         \o ValuesOf(Tail(wire), name)

\* C18: an inbound header with several values [a, b, c] goes upstream with
\* all of those values, in that order.
C18_MultiValueOrder ==
    \A r \in Reqs :
        trail[r].sent.some =>
            \A i \in 1..Len(trail[r].wire) :
                LET n == Lower(trail[r].wire[i][1]) IN
                (n \notin NotForwarded /\ Len(ValuesOf(trail[r].wire, n)) > 1) =>
                    /\ n \in DOMAIN trail[r].sent.val
                    /\ trail[r].sent.val[n] = ValuesOf(trail[r].wire, n)

\* C19: every header of the upstream response other than Connection, with
\* every value of a repeated header, is in the response relayed to the
\* client, and Connection never is.
C19_ResponseHeadersRelayed ==
    \A r \in Reqs :
        (resp[r].kind = "relayed" /\ trail[r].reply.some) =>
            /\ "connection" \notin DOMAIN resp[r].headers
            /\ \A i \in 1..Len(trail[r].reply.val) :
                  LET g == trail[r].reply.val[i] IN
                  g.name # "connection" =>
                      /\ g.name \in DOMAIN resp[r].headers
                      /\ resp[r].headers[g.name] = g.values

\* C20: a body of exactly forward.max_body_bytes is read and the request
\* goes on through the pipeline; a body one byte longer gets an HTTP 413
\* response.
C20_BodyCap ==
    \A r \in Reqs :
        (pc[r] = "done" /\ ~is_anonymous_request(config, trail[r].path)) =>
            /\ trail[r].body = config.max_body_bytes => Consulted(r, "ipfilter")
            /\ trail[r].body = config.max_body_bytes + 1 =>
                   (resp[r].kind = "error" /\ resp[r].status = 413)

\* The client address the description gives: the leftmost token of
\* X-Forwarded-For, or else the X-Real-IP value, or else the peer.
ClaimedClientIp(xff, xreal, peer) ==
    IF xff.some THEN Some(xff.val[1])
    ELSE IF xreal.some THEN Some(WholeValue(xreal.val))
    ELSE peer

\* C21: the IP filter looks up the leftmost token of X-Forwarded-For, or else
\* the X-Real-IP value, or else the peer address; a request whose leftmost
\* X-Forwarded-For token is a blocked address is reported as blocked.
C21_LeftmostForwardedFor ==
    (lastQuery.asked /\ "xff" \in DOMAIN lastQuery) =>
        LET claimed == ClaimedClientIp(lastQuery.xff, lastQuery.xreal, lastQuery.peer) IN
        /\ lastQuery.ip = claimed
        /\ (/\ lastQuery.backend
            /\ claimed.some
            /\ OffsetOf(claimed.val) \in lastQuery.bitmap) => lastQuery.result = Ok(TRUE)

\* The built-in anonymous entries: /healthz, /healthz/**, /static/**, /public/**.
BuiltInAnonymous(path) ==
    \/ path = << "/", "healthz" >>
    \/ IsPrefix(<< "/", "healthz", "/" >>, path)
    \/ IsPrefix(<< "/", "static", "/" >>, path)
    \/ IsPrefix(<< "/", "public", "/" >>, path)

ConfiguredAnonymous(path) ==
    /\ config.anonymous_paths.some
    /\ \E g \in config.anonymous_paths.val : GlobMatch(g, path)

\* C22: a request on /healthz, /healthz/**, /static/** or /public/**, or on a
\* path that matches a configured glob, is anonymous whether or not any
\* anonymous paths are configured: it is handed to the inner service.
C22_BuiltInsAlwaysAnonymous ==
    \A r \in Reqs :
        (/\ pc[r] # "idle"
         /\ BuiltInAnonymous(trail[r].path) \/ ConfiguredAnonymous(trail[r].path)) =>
            (pc[r] = "done" /\ resp[r] = Inner)

\* C23: requests are served only under a configuration whose
\* services.blocked_status_code, when set, lies within 300-599.
C23_InvalidStatusRejected ==
    (started /\ config.blocked_status_code.some) =>
        (config.blocked_status_code.val >= 300 /\ config.blocked_status_code.val <= 599)

\* C24: ticks of one updater instance never overlap: at no time are two runs
\* of the same updater's job in progress.
C24_TicksDoNotOverlap ==
    \A h \in DOMAIN handlers :
        handlers[h].reg = "updater" => Cardinality(Running(h)) <= 1

\* C25: a failure inside a tick ends that tick and is logged: in every run,
\* a step that failed was logged and no step was run after it.
C25_FailureEndsTickLogged ==
    \A t \in DOMAIN tasks :
        \A i \in DOMAIN tasks[t].steps :
            ~tasks[t].steps[i].ok =>
                /\ tasks[t].steps[i].logged
                /\ i = Len(tasks[t].steps)
                /\ tasks[t].pc \in { "done", "panicked" }

\* The cron expression handler h was configured with.
ConfiguredCron(h) ==
    IF handlers[h].reg = "updater"
        THEN services.updaters[handlers[h].entry].cron
        ELSE services.verifiers[handlers[h].entry].cron

BadCronInited(h) ==
    /\ handlers[h].reg \in { "updater", "verifier" }
    /\ handlers[h].inits > 0
    /\ ~Job_new_async(ConfiguredCron(h)).ok

\* C26: an updater or verifier whose configured cron does not parse has its
\* job scheduled with "0/30 * * * * *", and no init() of an updater or
\* verifier fails.
C26_CronFallback ==
    /\ initTask.pc # "panicked"
    /\ \A h \in DOMAIN handlers :
           BadCronInited(h) => handlers[h].job = Some(ScheduleFallback)

C26_Witness ==
    \E h \in DOMAIN handlers :
        /\ BadCronInited(h)
        /\ handlers[h].job = Some(ScheduleFallback)
        /\ initTask.pc = "idle"

\* The place of a status in the order of the upload's life; the two final
\* statuses share the last place.
StatusRank(status) ==
    CASE status = RECEIVED   -> 1
      [] status = PERSISTING -> 2
      [] status = PREPARING  -> 3
      [] status = EMBEDDING  -> 4
      [] status = EMBEDDED   -> 5
      [] status = FAILED     -> 5

\* C28: during an embedding call the status is assigned RECEIVED, PERSISTING,
\* PREPARING, EMBEDDING in that order, each at most once and none skipped,
\* and when the call returns the status is EMBEDDED or FAILED.
C28_StatusForward ==
    upload.pc # "idle" =>
        /\ \A i \in DOMAIN upload.assigned : StatusRank(upload.assigned[i]) = i
        /\ upload.status = upload.assigned[Len(upload.assigned)]
        /\ upload.pc = "returned" => upload.status \in { EMBEDDED, FAILED }

C28_Witness ==
    /\ upload.pc = "returned"
    /\ upload.status = FAILED
    /\ upload.assigned = << RECEIVED, PERSISTING, PREPARING, EMBEDDING, FAILED >>

\* C29: after the shutdown signal the requests in flight are waited for no
\* longer than the drain window.
C29_BoundedDrain ==
    serve.phase = "draining" => serve.waited < DrainWindow

\* C30: the security context read by a request gives the principal bound
\* for that request, or none.
C30_OwnPrincipalOnly ==
    \A r \in WebReqs :
        (webReq[r].pc = "done" /\ webReq[r].read) =>
            webReq[r].seen \in { None, webReq[r].claims }

====
